---- MODULE Spec2Model ----
(***************************************************************************)
(* Model of the template-error recovery engine of go-template-validation:  *)
(* the diagnostic extractor (createTemplateError), the recovery driver     *)
(* (parse / parseInternal) with its token locator and its two healers, the *)
(* execution pass (exec) and the HTTP handlers that share App.tplErrs.     *)
(*                                                                         *)
(* A Go string is a sequence of one-character strings, so that the regular *)
(* expressions and the index arithmetic of the code are computed and not   *)
(* assumed.  The template engine (text/template) is an external            *)
(* collaborator: its replies are inputs of the model.                      *)
(***************************************************************************)
EXTENDS Integers, Sequences, FiniteSets, TLC

\* part_000:12  const maxFixes = 10
maxFixes == 10

\* main.go:27-31  the three error levels
misunderstoodError == "misunderstood"
parseErrorLevel == "parse"
execErrorLevel == "exec"

(***************************************************************************)
(* Strings                                                                 *)
(***************************************************************************)
Min(S) == CHOOSE x \in S : \A y \in S : x <= y
Max(S) == CHOOSE x \in S : \A y \in S : x >= y

Digits == {"0", "1", "2", "3", "4", "5", "6", "7", "8", "9"}
IsDigit(c) == c \in Digits
\* \s of Go's regexp: [\t\n\f\r ]
IsSpace(c) == c \in {" ", "\t", "\n", "\f", "\r"}
\* . of Go's regexp without the s flag: any character but a line break
IsDot(c) == c # "\n"

\* p occurs in s at the 1-based position i
HasAt(s, p, i) ==
    /\ i >= 1
    /\ i + Len(p) - 1 <= Len(s)
    /\ \A k \in 1..Len(p) : s[i + k - 1] = p[k]

\* s[i..j-1], the text between two 1-based positions
Slice(s, i, j) == SubSeq(s, i, j - 1)

\* strings.Index and strings.LastIndex: 0-based byte offsets, -1 when absent
Occurrences(s, sub) == {i \in 1..(Len(s) - Len(sub) + 1) : HasAt(s, sub, i)}
Index(s, sub) == IF Occurrences(s, sub) = {} THEN -1 ELSE Min(Occurrences(s, sub)) - 1
LastIndex(s, sub) == IF Occurrences(s, sub) = {} THEN -1 ELSE Max(Occurrences(s, sub)) - 1

\* the position after the longest run of characters satisfying P that starts at i
RunEnd(s, i, P(_)) ==
    CHOOSE j \in i..(Len(s) + 1) :
        /\ \A k \in i..(j - 1) : P(s[k])
        /\ (j = Len(s) + 1 \/ ~P(s[j]))

\* the string literals of the source
S_template == <<"t", "e", "m", "p", "l", "a", "t", "e", ":", " ">>
S_colon == <<":">>
S_colonSpace == <<":", " ">>

(***************************************************************************)
(* strconv.Atoi on a string of decimal digits (the only strings the        *)
(* extractor hands it, by \d+): the value, or an error when it does not    *)
(* fit a 64-bit int.                                                       *)
(***************************************************************************)
MaxIntDigits == <<"9", "2", "2", "3", "3", "7", "2", "0", "3", "6", "8", "5", "4", "7", "7", "5", "8", "0", "7">>

DigitChars == <<"0", "1", "2", "3", "4", "5", "6", "7", "8", "9">>
DigitVal(c) == CHOOSE n \in 0..9 : DigitChars[n + 1] = c

IsZero(c) == c = "0"
StripZeros(s) == Slice(s, RunEnd(s, 1, IsZero), Len(s) + 1)

\* a > b for two digit strings of the same length
DigitsGreater(a, b) ==
    \E i \in 1..Len(a) :
        /\ \A k \in 1..(i - 1) : a[k] = b[k]
        /\ DigitVal(a[i]) > DigitVal(b[i])

RECURSIVE DigitsValue(_)
DigitsValue(s) ==
    IF Len(s) = 0 THEN 0
    ELSE 10 * DigitsValue(SubSeq(s, 1, Len(s) - 1)) + DigitVal(s[Len(s)])

\* the value of a string of digits without leading zeros, or the range error
AtoiStripped(z) ==
    IF Len(z) > Len(MaxIntDigits)
       \/ (Len(z) = Len(MaxIntDigits) /\ DigitsGreater(z, MaxIntDigits))
    THEN [err |-> TRUE, val |-> 0]
    ELSE [err |-> FALSE, val |-> DigitsValue(z)]

Atoi(s) ==
    IF Len(s) = 0 \/ \E k \in 1..Len(s) : ~IsDigit(s[k])
    THEN [err |-> TRUE, val |-> 0]
    ELSE AtoiStripped(StripZeros(s))

(***************************************************************************)
(* templateErrorRegex (part_000:15): the text template:, a space, a name   *)
(* (any characters but a line break, as few as possible), a colon, an      *)
(* optional group of digits and a colon, digits, a colon, a space, and the *)
(* rest of the line.                                                       *)
(* FindStringSubmatch: the leftmost match, the name as short as possible,  *)
(* the optional group taken when it can be.  The result is the sequence of *)
(* the whole match and the five groups, or the empty sequence.             *)
(***************************************************************************)
DigitsEnd(s, p) == IF p > Len(s) + 1 THEN p ELSE RunEnd(s, p, IsDigit)

\* the groups when the optional group is taken: the digits p..d1-1, a colon,
\* the digits d1+1..d2-1, a colon and a space
WithCharGroups(s, p, d1, d2) ==
    [ok |-> /\ d1 > p
            /\ HasAt(s, S_colon, d1)
            /\ d2 > d1 + 1
            /\ HasAt(s, S_colonSpace, d2),
     g2 |-> Slice(s, p, d1 + 1),
     g3 |-> Slice(s, p, d1),
     g4 |-> Slice(s, d1 + 1, d2),
     rest |-> d2 + 2]

WithCharFrom(s, p, d1) == WithCharGroups(s, p, d1, DigitsEnd(s, d1 + 1))

TailWithChar(s, e) == WithCharFrom(s, e + 1, DigitsEnd(s, e + 1))

\* the groups when it is not: the digits p..d1-1, a colon and a space
LineOnlyGroups(s, p, d1) ==
    [ok |-> d1 > p /\ HasAt(s, S_colonSpace, d1),
     g2 |-> <<>>,
     g3 |-> <<>>,
     g4 |-> Slice(s, p, d1),
     rest |-> d1 + 2]

TailLineOnly(s, e) == LineOnlyGroups(s, e + 1, DigitsEnd(s, e + 1))

Prefer(first, second) == IF first.ok THEN first ELSE second

\* the match that continues after the colon at position e
AfterName(s, e) == Prefer(TailWithChar(s, e), TailLineOnly(s, e))

\* the ends e of a name that starts at n: no line break in it, a colon after it
NameEnds(s, n) ==
    {e \in n..Len(s) :
        /\ s[e] = ":"
        /\ \A k \in n..(e - 1) : IsDot(s[k])
        /\ AfterName(s, e).ok}

MatchStarts(s) ==
    {i \in 1..Len(s) : HasAt(s, S_template, i) /\ NameEnds(s, i + Len(S_template)) # {}}

Submatches(s, i, e, t, last) ==
    << Slice(s, i, last),
       Slice(s, i + Len(S_template), e),
       t.g2,
       t.g3,
       t.g4,
       Slice(s, t.rest, last) >>

MatchTail(s, i, e, t) == Submatches(s, i, e, t, RunEnd(s, t.rest, IsDot))

MatchName(s, i, e) == MatchTail(s, i, e, AfterName(s, e))

MatchAt(s, i) == MatchName(s, i, Min(NameEnds(s, i + Len(S_template))))

MatchAmong(s, starts) == IF starts = {} THEN <<>> ELSE MatchAt(s, Min(starts))

templateErrorRegex(s) == MatchAmong(s, MatchStarts(s))

(***************************************************************************)
(* createTemplateError (part_000:23-52).  matches[k] of the code is        *)
(* matches[k + 1] here.                                                    *)
(***************************************************************************)
\* a faulty variant of charOf: the last number is taken for the character
\* whether or not the message has two numbers
charOf_unchecked(matches) == IF ~Atoi(matches[5]).err THEN Atoi(matches[5]).val ELSE -1

\* part_000:34-41
charOf(matches) ==
    IF matches[4] # <<>> /\ ~Atoi(matches[5]).err THEN Atoi(matches[5]).val ELSE -1

\* part_000:33-36
lineIndex(matches) == IF matches[4] # <<>> THEN 4 ELSE 5

\* a faulty variant of lineOf: the line number is kept 1-based
lineOf_oneBased(number) == IF number.err THEN -1 ELSE number.val

\* part_000:43-48
lineOf(number) == IF number.err THEN -1 ELSE number.val - 1

\* part_000:25-27 and 50-51
templateErrorOf(matches, errText, level) ==
    IF Len(matches) # 6
    THEN [Line |-> -1, Char |-> -1, Description |-> errText, Level |-> misunderstoodError]
    ELSE [Line |-> lineOf(Atoi(matches[lineIndex(matches)])),
          Char |-> charOf(matches),
          Description |-> matches[6],
          Level |-> level]

createTemplateError(errText, level) ==
    templateErrorOf(templateErrorRegex(errText), errText, level)

(***************************************************************************)
(* The other patterns of part_000:16-20                                    *)
(***************************************************************************)
S_quotes == {"'", "\""}
S_function == <<"f", "u", "n", "c", "t", "i", "o", "n", " ", "\"">>
S_notDefined == <<"\"", " ", "n", "o", "t", " ", "d", "e", "f", "i", "n", "e", "d">>
S_missingValue == <<"m", "i", "s", "s", "i", "n", "g", " ", "v", "a", "l", "u", "e", " ", "f", "o", "r", " ", "c", "o", "m", "m", "a", "n", "d">>
S_open == <<"{", "{">>
S_close == <<"}", "}">>
S_dash == <<"-">>
S_newline == <<"\n">>
S_comma == <<",">>

\* findTokenRegex: a quote, one or more characters of the line (as many as
\* possible), a quote.  The closing quotes that a match opening at i can take:
TokenCloses(s, i) ==
    {j \in (i + 2)..Len(s) : s[j] \in S_quotes /\ \A k \in (i + 1)..(j - 1) : IsDot(s[k])}

TokenOpens(s) == {i \in 1..Len(s) : s[i] \in S_quotes /\ TokenCloses(s, i) # {}}

TokenSpan(s, opens) ==
    IF opens = {} THEN <<>> ELSE <<Min(opens) - 1, Max(TokenCloses(s, Min(opens)))>>

\* FindStringIndex: <<loc[0], loc[1]>> as 0-based offsets, or <<>> for nil
findTokenRegex(s) == TokenSpan(s, TokenOpens(s))

\* functionNotFoundRegex: function "NAME" not defined, NAME as long as possible
FunctionCloses(s, i) ==
    {k \in (i + Len(S_function) + 1)..Len(s) :
        /\ HasAt(s, S_notDefined, k)
        /\ \A m \in (i + Len(S_function))..(k - 1) : IsDot(s[m])}

FunctionOpens(s) == {i \in 1..Len(s) : HasAt(s, S_function, i) /\ FunctionCloses(s, i) # {}}

FunctionGroups(s, i, k) ==
    <<Slice(s, i, k + Len(S_notDefined)), Slice(s, i + Len(S_function), k)>>

FunctionAt(s, i) == FunctionGroups(s, i, Max(FunctionCloses(s, i)))

FunctionAmong(s, opens) == IF opens = {} THEN <<>> ELSE FunctionAt(s, Min(opens))

\* FindStringSubmatch: <<whole match, NAME>>, or <<>> for nil
functionNotFoundRegex(s) == FunctionAmong(s, FunctionOpens(s))

\* missingValueForCommandRegex.MatchString
missingValueForCommandRegex(s) == Occurrences(s, S_missingValue) # {}

\* firstEmptyCommandRegex: the opening braces, then either an optional dash
\* and white space or white space and an optional dash, then the closing
\* braces.  The position after a match that opens at p, or 0.
SkipDash(s, q) == IF HasAt(s, S_dash, q) THEN q + 1 ELSE q

CloseAt(s, q) == IF HasAt(s, S_close, q) THEN q + Len(S_close) ELSE 0

EitherEnd(dashFirst, dashLast) == IF dashFirst # 0 THEN dashFirst ELSE dashLast

EmptyCommandEnd(s, p) ==
    IF ~HasAt(s, S_open, p) THEN 0
    ELSE EitherEnd(CloseAt(s, RunEnd(s, SkipDash(s, p + Len(S_open)), IsSpace)),
                   CloseAt(s, SkipDash(s, RunEnd(s, p + Len(S_open), IsSpace))))

EmptyCommandStarts(s) == {p \in 1..Len(s) : EmptyCommandEnd(s, p) # 0}

EmptyCommandAt(s, p) ==
    [found |-> TRUE, at |-> p - 1, span |-> Slice(s, p, EmptyCommandEnd(s, p))]

EmptyCommandAmong(s, starts) ==
    IF starts = {} THEN [found |-> FALSE, at |-> -1, span |-> <<>>]
    ELSE EmptyCommandAt(s, Min(starts))

\* FindStringSubmatch(s)[0] and FindStringIndex(s)[0] of the leftmost match:
\* [found, at (0-based offset), span (the matched text)]
firstEmptyCommandRegex(s) == EmptyCommandAmong(s, EmptyCommandStarts(s))

\* fmt.Sprintf("%Nds", ""): N blanks
Blanks(n) == [i \in 1..n |-> " "]

\* a faulty variant of ReplaceAt: every character after the first occurrence
\* is replaced as well
ReplaceAt_toEnd(s, at, old, new) ==
    IF at = -1 THEN s
    ELSE SubSeq(s, 1, at) \o new \o [i \in 1..(Len(s) - at - Len(old)) |-> " "]

\* strings.Replace(s, old, new, 1)
ReplaceAt(s, at, old, new) ==
    IF at = -1 THEN s
    ELSE SubSeq(s, 1, at) \o new \o SubSeq(s, at + Len(old) + 1, Len(s))

ReplaceFirst(s, old, new) == ReplaceAt(s, Index(s, old), old, new)

\* the text before and the text after the separator at the 0-based offset at
Before(s, at) == SubSeq(s, 1, at)
After(s, at) == SubSeq(s, at + 2, Len(s))

\* SplitLines is not among the sources kept here; its contract is to split
\* on line breaks, the same rule for the driver and for the page.
RECURSIVE SplitLinesAt(_, _)
SplitLinesAt(s, at) ==
    IF at = -1 THEN <<s>>
    ELSE <<Before(s, at)>> \o SplitLinesAt(After(s, at), Index(After(s, at), S_newline))

SplitLines(s) == SplitLinesAt(s, Index(s, S_newline))

\* strings.Split(s, ",")
RECURSIVE SplitAt(_, _)
SplitAt(s, at) ==
    IF at = -1 THEN <<s>>
    ELSE <<Before(s, at)>> \o SplitAt(After(s, at), Index(After(s, at), S_comma))

SplitComma(s) == SplitAt(s, Index(s, S_comma))

\* strings.TrimSpace
NonSpaces(s) == {j \in 1..Len(s) : ~IsSpace(s[j])}
TrimSpace(s) == IF NonSpaces(s) = {} THEN <<>> ELSE SubSeq(s, Min(NonSpaces(s)), Max(NonSpaces(s)))

(***************************************************************************)
(* The template engine (text/template) is not part of the repository.  Its *)
(* answer to Parse is a function of the text and of the functions          *)
(* registered on the template: it fails on the first call of a function    *)
(* that nobody registered and on the first empty action.  What it leaves   *)
(* open is chosen with the request: which of the two it reports first      *)
(* (order; "both" is one failure that names both), which line number it    *)
(* writes in a failure (lines) and what it answers once nothing is left to *)
(* heal (tail).                                                            *)
(***************************************************************************)
\* how far beyond maxFixes the number of undefined functions of a text goes
MaxExtra == 1

\* main.go:166  textTemplate.New("input template")
S_name == <<"i", "n", "p", "u", "t", " ", "t", "e", "m", "p", "l", "a", "t", "e">>

Letters == <<"a", "b", "c", "d", "e", "f", "g", "h", "i", "j", "k", "l", "m", "n">>
IsLetter(c) ==
    c \in {"a", "b", "c", "d", "e", "f", "g", "h", "i", "j", "k", "l", "m",
           "n", "o", "p", "q", "r", "s", "t", "u", "v", "w", "x", "y", "z"}

RECURSIVE DigitsOf(_)
DigitsOf(n) ==
    IF n < 10 THEN <<DigitChars[n + 1]>>
    ELSE DigitsOf(n \div 10) \o <<DigitChars[(n % 10) + 1]>>

HugeDigits == <<"9", "9", "9", "9", "9", "9", "9", "9", "9", "9", "9", "9", "9", "9", "9", "9", "9", "9", "9", "9">>

D_unexpected == <<"u", "n", "e", "x", "p", "e", "c", "t", "e", "d", " ", "\"", "}", "\"", " ", "i", "n", " ", "c", "o", "m", "m", "a", "n", "d">>
D_operand == <<"u", "n", "e", "x", "p", "e", "c", "t", "e", "d", " ", "\"", "a", "\"", " ", "i", "n", " ", "o", "p", "e", "r", "a", "n", "d">>
D_redefinition == <<"r", "e", "d", "e", "f", "i", "n", "i", "t", "i", "o", "n", " ", "o", "f", " ", "t", "e", "m", "p", "l", "a", "t", "e", " ", "\"", "x", "\"">>
\* a description with two quoted tokens
D_twoTokens == <<"u", "n", "e", "x", "p", "e", "c", "t", "e", "d", " ", "\"", "a", "\"", " ", "a", "f", "t", "e", "r", " ", "\"", "b", "\"">>
\* a message outside the grammar that names an undefined function
D_unplaced == S_function \o <<"x">> \o S_notDefined
S_semicolon == <<";", " ">>

Orders == {"text", "function", "empty", "both"}
LineModes == {"true", "zero", "beyond", "huge"}
Tails == {"ok", "unexpected", "withChar", "misunderstood", "missingValue", "twoTokens", "unplaced"}

\* the 1-based line of the character at the 0-based offset at
LineOfOffset(text, at) == Cardinality({k \in 1..at : text[k] = "\n"}) + 1

LineField(eng, text, line) ==
    CASE eng.lines = "true" -> DigitsOf(line)
      [] eng.lines = "zero" -> <<"0">>
      [] eng.lines = "beyond" -> DigitsOf(Len(SplitLines(text)) + 1)
      [] eng.lines = "huge" -> HugeDigits

\* template: NAME:LINE: DESCRIPTION
Failure(eng, text, line, description) ==
    [ok |-> FALSE,
     msg |-> S_template \o S_name \o S_colon \o LineField(eng, text, line)
                \o S_colonSpace \o description]

\* template: NAME:LINE:3: DESCRIPTION
FailureWithChar(eng, text, line, description) ==
    [ok |-> FALSE,
     msg |-> S_template \o S_name \o S_colon \o LineField(eng, text, line)
                \o <<":", "3", ":", " ">> \o description]

\* the calls of a function in the text: the braces around one letter
CallAt(text, p) ==
    /\ HasAt(text, S_open, p)
    /\ HasAt(text, S_close, p + Len(S_open) + 1)
    /\ IsLetter(text[p + Len(S_open)])

CalledAt(text, p) == <<text[p + Len(S_open)]>>

\* the positions of the calls of functions that nobody registered
MissingFns(text, funcs) ==
    {p \in 1..Len(text) : CallAt(text, p) /\ CalledAt(text, p) \notin funcs}

\* the failure is reported on the line of the call
FnFailure(eng, text, p) ==
    Failure(eng, text, LineOfOffset(text, p - 1), S_function \o CalledAt(text, p) \o S_notDefined)

\* the failure is reported on the line of the empty action
MvFailure(eng, text, empty) ==
    Failure(eng, text, IF empty.found THEN LineOfOffset(text, empty.at) ELSE 1, S_missingValue)

\* one failure for both: the undefined function and the empty action
BothFailure(eng, text, p) ==
    Failure(eng, text, LineOfOffset(text, p - 1),
            S_function \o CalledAt(text, p) \o S_notDefined \o S_semicolon \o S_missingValue)

TailReply(eng, text, empty) ==
    CASE eng.tail = "ok" -> [ok |-> TRUE, msg |-> <<>>]
      [] eng.tail = "unexpected" -> Failure(eng, text, 1, D_unexpected)
      [] eng.tail = "withChar" -> FailureWithChar(eng, text, 1, D_operand)
      [] eng.tail = "misunderstood" -> [ok |-> FALSE, msg |-> S_template \o D_redefinition]
      [] eng.tail = "missingValue" -> MvFailure(eng, text, empty)
      [] eng.tail = "twoTokens" -> Failure(eng, text, 1, D_twoTokens)
      [] eng.tail = "unplaced" -> [ok |-> FALSE, msg |-> S_template \o D_unplaced]

\* the undefined function is reported before the empty action
FunctionFirst(eng, missing, empty) ==
    \/ ~empty.found
    \/ eng.order = "function"
    \/ eng.order = "text" /\ Min(missing) - 1 < empty.at

EngineReply(eng, text, missing, empty) ==
    IF missing = {} /\ ~empty.found THEN TailReply(eng, text, empty)
    ELSE IF missing # {} /\ empty.found /\ eng.order = "both"
    THEN BothFailure(eng, text, Min(missing))
    ELSE IF missing # {} /\ FunctionFirst(eng, missing, empty)
    THEN FnFailure(eng, text, Min(missing))
    ELSE MvFailure(eng, text, empty)

\* baseTpl.Parse(text): the template, or the failure message
EngineParse(eng, text, funcs) ==
    EngineReply(eng, text, MissingFns(text, funcs), firstEmptyCommandRegex(text))

\* t.Funcs panics on a name that is no identifier: empty, a first character
\* that is no letter or underscore, or a character that is no letter, digit
\* or underscore
GoodName(name) ==
    /\ Len(name) > 0
    /\ IsLetter(name[1]) \/ name[1] = "_"
    /\ \A k \in 1..Len(name) : IsLetter(name[k]) \/ IsDigit(name[k]) \/ name[k] = "_"

\* t.Execute(buf, data): what the engine may answer.  A template that was
\* never parsed has no body, and the engine says so.
S_incomplete == <<"\"", " ", "i", "s", " ", "a", "n", " ", "i", "n", "c", "o", "m", "p", "l", "e", "t", "e", " ", "o", "r", " ", "e", "m", "p", "t", "y", " ", "t", "e", "m", "p", "l", "a", "t", "e">>
D_executing == <<":", "1", ":", "3", ":", " ", "e", "x", "e", "c", "u", "t", "i", "n", "g", " ", "\"", "i", "n", "p", "u", "t", " ", "t", "e", "m", "p", "l", "a", "t", "e", "\"", " ", "a", "t", " ", "<", ".", "x", ">", ":", " ", "n", "i", "l", " ", "p", "o", "i", "n", "t", "e", "r">>
S_other == <<"o", "t", "h", "e", "r">>

\* fmt.Sprintf of part_000:126 for the template named name
IncompleteMessage(name) == S_template \o name \o <<":", " ", "\"">> \o name \o S_incomplete

ExecReplies == {"ok", "incomplete", "incompleteOther", "failure"}

ExecMessage(reply) ==
    CASE reply = "incomplete" -> IncompleteMessage(S_name)
      [] reply = "incompleteOther" -> IncompleteMessage(S_other)
      [] reply = "failure" -> S_template \o S_name \o D_executing
      [] OTHER -> <<>>

EngineExecute(parsedT) == IF parsedT = "parsed" THEN ExecReplies ELSE {"incomplete"}

(***************************************************************************)
(* One level of the recovery driver, parseInternal (part_000:58-117), as   *)
(* the outcome of the level: it returns, it calls itself once, or it       *)
(* panics on an index out of range.                                        *)
(***************************************************************************)
\* a faulty variant of depthExhausted: the bound is tested one level too late
depthExhausted_late(depth) == depth > maxFixes

\* a faulty variant of depthExhausted: the comparison is turned around
depthExhausted_inverted(depth) == depth <= maxFixes

\* part_000:61
depthExhausted(depth) == depth >= maxFixes

\* lines[i] of Go: a run-time panic unless 0 <= i < len(lines)
InRange(i, lines) == 0 <= i /\ i < Len(lines)

\* part_000:82-85: the offset of the token when it occurs once in the line
TokenChar(line, token, char) ==
    IF LastIndex(line, token) = Index(line, token) THEN Index(line, token) ELSE char

\* part_000:76-86 with tokenLoc the result of findTokenRegex
Locate(tplErr, lines, tokenLoc) ==
    IF tplErr.Char # -1 \/ tokenLoc = <<>>
    THEN [panic |-> FALSE, Char |-> tplErr.Char]
    ELSE IF ~InRange(tplErr.Line, lines)
    THEN [panic |-> TRUE, Char |-> tplErr.Char]
    ELSE [panic |-> FALSE,
          Char |-> TokenChar(lines[tplErr.Line + 1],
                             SubSeq(tplErr.Description, tokenLoc[1] + 2, tokenLoc[2] - 1),
                             tplErr.Char)]

\* part_000:75-87, the token locator: the Char of the diagnostic afterwards
TokenLocator(tplErr, lines) == Locate(tplErr, lines, findTokenRegex(tplErr.Description))

\* part_000:101-104: the offset of the first empty action of the line
EmptyCommandChar(indexes, char) == IF indexes.found THEN indexes.at ELSE char

\* part_000:98-105 with matches the first empty action of the text
HealEmptyCommand(tplErr, text, lines, matches) ==
    IF ~missingValueForCommandRegex(tplErr.Description) \/ ~matches.found
    THEN [heal |-> FALSE, panic |-> FALSE, Char |-> tplErr.Char, text |-> text]
    ELSE IF ~InRange(tplErr.Line, lines)
    THEN [heal |-> FALSE, panic |-> TRUE, Char |-> tplErr.Char, text |-> text]
    ELSE [heal |-> TRUE,
          panic |-> FALSE,
          Char |-> EmptyCommandChar(firstEmptyCommandRegex(lines[tplErr.Line + 1]), tplErr.Char),
          text |-> ReplaceFirst(text, matches.span, Blanks(Len(matches.span)))]

\* part_000:98-105, the empty-command healer: whether it heals, the Char of
\* the diagnostic and the text of the next attempt
EmptyCommandHealer(tplErr, text) ==
    HealEmptyCommand(tplErr, text, SplitLines(text), firstEmptyCommandRegex(text))

Return(t, errs, called) ==
    [kind |-> "return", t |-> t, tplErrs |-> errs, called |-> called,
     heal |-> "none", text |-> <<>>, stub |-> <<>>]

Recurse(heal, errs, text, stub) ==
    [kind |-> "recurse", t |-> "none", tplErrs |-> errs, called |-> TRUE,
     heal |-> heal, text |-> text, stub |-> stub]

Panic(where) ==
    [kind |-> "panic", t |-> "none", tplErrs |-> <<>>, called |-> TRUE,
     heal |-> where, text |-> <<>>, stub |-> <<>>]

\* part_000:98-116
healEmptyCommand(tplErr, healed) ==
    IF healed.panic THEN Panic("healer")
    ELSE IF healed.heal
    THEN Recurse("mv", <<[tplErr EXCEPT !.Char = healed.Char]>>, healed.text, <<>>)
    ELSE Return("base", <<tplErr>>, TRUE)

\* a faulty variant of healFunction: the empty-command healer is tried first
healFunction_emptyFirst(tplErr, text, badFunctionMatch) ==
    IF badFunctionMatch = <<>> \/ EmptyCommandHealer(tplErr, text).heal
    THEN healEmptyCommand(tplErr, EmptyCommandHealer(tplErr, text))
    ELSE IF GoodName(badFunctionMatch[2])
    THEN Recurse("fn", <<tplErr>>, text, badFunctionMatch[2])
    ELSE Panic("funcs")

\* part_000:89-96
healFunction(tplErr, text, badFunctionMatch) ==
    IF badFunctionMatch = <<>> THEN healEmptyCommand(tplErr, EmptyCommandHealer(tplErr, text))
    ELSE IF GoodName(badFunctionMatch[2])
    THEN Recurse("fn", <<tplErr>>, text, badFunctionMatch[2])
    ELSE Panic("funcs")

heal(tplErr, text) == healFunction(tplErr, text, functionNotFoundRegex(tplErr.Description))

\* part_000:75-87
locate(first, text, located) ==
    IF located.panic THEN Panic("locator")
    ELSE heal([first EXCEPT !.Char = located.Char], text)

\* a faulty variant of diagnose: a misunderstood diagnostic is located and
\* healed like any other
diagnose_unchecked(first, text) == locate(first, text, TokenLocator(first, SplitLines(text)))

\* part_000:69-73
diagnose(first, text) ==
    IF first.Level = misunderstoodError THEN Return("base", <<first>>, TRUE)
    ELSE locate(first, text, TokenLocator(first, SplitLines(text)))

\* part_000:65-69
parsed(reply, text) ==
    IF reply.ok THEN Return("parsed", <<>>, TRUE)
    ELSE diagnose(createTemplateError(reply.msg, parseErrorLevel), text)

\* part_000:58-117
parseLevel(eng, text, funcs, depth) ==
    IF depthExhausted(depth) THEN Return("base", <<>>, FALSE)
    ELSE parsed(EngineParse(eng, text, funcs), text)

\* a faulty variant of exec: the incomplete template is reported like any
\* other failure
exec_unsuppressed(reply) ==
    IF reply = "ok" THEN <<>>
    ELSE <<createTemplateError(ExecMessage(reply), execErrorLevel)>>

\* part_000:119-137, exec: the diagnostics for the engine's answer
exec(reply) ==
    IF reply = "ok" THEN <<>>
    ELSE IF ExecMessage(reply) = IncompleteMessage(S_name) THEN <<>>
    ELSE <<createTemplateError(ExecMessage(reply), execErrorLevel)>>

(***************************************************************************)
(* State.  tplErrs is the field App.tplErrs (main.go:97), one for all the  *)
(* requests of the server.  h[r] is the activation of the handler of       *)
(* request r: its inputs, its position pc, the locals of Post/Get and      *)
(* createData, and the call stack of parseInternal.  probe is the argument *)
(* and the result of one call of createTemplateError on its own.           *)
(***************************************************************************)
VARIABLES tplErrs, h, probe

vars == <<tplErrs, h, probe>>

\* the texts of a request: n calls of functions, a to the n-th letter, and
\* next to them nothing, or empty actions on one line or over a line break
RECURSIVE Calls(_)
Calls(n) == IF n = 0 THEN <<>> ELSE Calls(n - 1) \o S_open \o <<Letters[n]>> \o S_close

Empties1 == <<" ", "a", "\n", "{", "{", "}", "}", "{", "{", " ", "-", "}", "}">>
Empties2 == <<"x", "{", "{", "\n", "}", "}", "\n", "{", "{", "-", " ", "}", "}", "\n">>
MaxCalls == maxFixes + MaxExtra
MaxCallsAfter == 2

Texts ==
    {Calls(n) \o e : n \in 0..MaxCalls, e \in {<<>>, Empties1}}
        \cup {Empties2 \o Calls(n) : n \in 0..MaxCallsAfter}

\* the function lists of a request (the form value "functions")
RawFns1 == <<"a", ",", "b">>
RawFns2 == <<"a", ",", " ", "1", "x", ",", "b">>
RawFns3 == <<" ", ",", "c">>

\* the form values "functions" and "data" of a request; data are "" (none),
\* "valid" (a JSON document) or "invalid" (no JSON document)
\* with the names of the list that are identifiers (valid) and, in the order
\* of the list, those that are not (invalid)
Forms ==
    { [rawFns |-> <<>>, rawData |-> "", valid |-> {}, invalid |-> <<>>],
      [rawFns |-> <<>>, rawData |-> "invalid", valid |-> {}, invalid |-> <<>>],
      [rawFns |-> RawFns1, rawData |-> "valid", valid |-> {<<"a">>, <<"b">>}, invalid |-> <<>>],
      [rawFns |-> RawFns2, rawData |-> "invalid",
       valid |-> {<<"a">>, <<"b">>}, invalid |-> << <<"1", "x">> >>],
      [rawFns |-> RawFns3, rawData |-> "valid", valid |-> {<<"c">>}, invalid |-> << <<>> >>] }

Engines == [order : Orders, lines : LineModes, tail : Tails]

\* an engine that writes a line number of its own, or that does not report
\* in the order of the text, is given a text of few calls
MaxOddCalls == 2

Plain(eng) == eng.lines = "true" /\ eng.order = "text"

\* main.go:100-108, the sample that Get renders: a template the engine
\* parses and executes without a failure
SampleText ==
    << "<", "!", "-", "-", " ", "h", "t", "t", "p", "s", ":", "/",
       "/", "s", "t", "a", "c", "k", "o", "v", "e", "r", "f", "l",
       "o", "w", ".", "c", "o", "m", "/", "q", "u", "e", "s", "t",
       "i", "o", "n", "s", "/", "1", "6", "7", "3", "4", "5", "0",
       "3", "/", "a", "c", "c", "e", "s", "s", "-", "o", "u", "t",
       "-", "o", "f", "-", "l", "o", "o", "p", "-", "v", "a", "l",
       "u", "e", "-", "i", "n", "s", "i", "d", "e", "-", "g", "o",
       "l", "a", "n", "g", "-", "t", "e", "m", "p", "l", "a", "t",
       "e", "s", "-", "l", "o", "o", "p", " ", "-", "-", ">", "\n",
       "{", "{", "-", " ", "r", "a", "n", "g", "e", " ", ".", "P",
       "a", "g", "e", "s", "}", "}", "\n", "<", "l", "i", ">", "<",
       "a", " ", "h", "r", "e", "f", "=", "\"", "{", "{", "$", ".",
       "N", "a", "m", "e", "}", "}", "/", "{", "{", ".", "}", "}",
       "\"", ">", "{", "{", ".", "}", "}", "<", "/", "a", ">", "<",
       "/", "l", "i", ">", "\n", "{", "{", "-", " ", "e", "n", "d",
       "}", "}" >>
SampleEngine == [order |-> "text", lines |-> "true", tail |-> "ok"]

NoDiagnostic == [Line |-> -1, Char |-> -1, Description |-> <<>>, Level |-> ""]

Activation(method, text, form, eng) ==
    [method |-> method, text |-> text, rawFns |-> form.rawFns, rawData |-> form.rawData,
     form |-> form, eng |-> eng,
     pc |-> "begin",
     functions |-> <<>>, fnIdx |-> 1, funcs |-> {}, funcs0 |-> {},
     pend |-> <<>>, cont |-> "", tmp |-> <<>>,
     cur |-> [text |-> <<>>, depth |-> 0],
     stack |-> <<>>,
     ret |-> [t |-> "none", tplErrs |-> <<>>],
     calls |-> 0, trace |-> <<>>, heals |-> <<>>, levels |-> <<>>, panicAt |-> "",
     parsedT |-> "none", parseTplErrs |-> <<>>,
     execReply |-> "none", execTplErrs |-> <<>>,
     Errors |-> <<>>, own |-> <<>>]

PostRequests ==
    {Activation("POST", q[1], q[2], q[3]) :
        q \in {p \in Texts \X Forms \X Engines :
                  Plain(p[3]) \/ Len(p[1]) <= Len(Calls(MaxOddCalls) \o Empties2)}}

SampleForm == [rawFns |-> <<>>, rawData |-> "valid", valid |-> {}, invalid |-> <<>>]
GetRequest == Activation("GET", SampleText, SampleForm, SampleEngine)

(***************************************************************************)
(* The error texts handed to createTemplateError on its own: the prefix,   *)
(* the name, the line number, the character number (none when its digits   *)
(* are empty) and the description of a message of the engine's grammar,    *)
(* and texts that deviate from it.  A number comes with its value, or with *)
(* fits = FALSE when it is beyond the 64-bit integers.                     *)
(***************************************************************************)
D_someError == <<"s", "o", "m", "e", " ", "e", "r", "r", "o", "r">>
MinOverflow == <<"9", "2", "2", "3", "3", "7", "2", "0", "3", "6", "8", "5", "4", "7", "7", "5", "8", "0", "8">>

ProbePrefixes == {<<>>, <<"o", "o", "p", "s", " ">>}
ProbeNames == {<<"X">>, <<>>, <<"a", ":", "1", ":", " ", "b">>, <<"i", "n", "\n", "p", "u", "t">>}
ProbeLines ==
    { [digits |-> <<"1", "2">>, value |-> 12, fits |-> TRUE],
      [digits |-> <<"3">>, value |-> 3, fits |-> TRUE],
      [digits |-> <<"0">>, value |-> 0, fits |-> TRUE],
      [digits |-> <<"0", "0", "7">>, value |-> 7, fits |-> TRUE],
      [digits |-> MinOverflow, value |-> 0, fits |-> FALSE],
      [digits |-> HugeDigits, value |-> 0, fits |-> FALSE] }
NoNumber == [digits |-> <<>>, value |-> 0, fits |-> FALSE]
ProbeChars ==
    { NoNumber,
      [digits |-> <<"5">>, value |-> 5, fits |-> TRUE],
      [digits |-> <<"0">>, value |-> 0, fits |-> TRUE],
      [digits |-> HugeDigits, value |-> 0, fits |-> FALSE] }
ProbeDescriptions ==
    {D_someError, <<>>, <<"d", "\n", "m", "o", "r", "e">>, <<"x", ":", "1", ":", "2", ":", " ", "y">>}
Levels == {parseErrorLevel, execErrorLevel}

\* template: NAME:LINE: DESCRIPTION and template: NAME:LINE:CHAR: DESCRIPTION
GrammarText(pre, name, line, char, desc) ==
    pre \o S_template \o name \o S_colon \o line.digits
        \o (IF char.digits = <<>> THEN <<>> ELSE S_colon \o char.digits)
        \o S_colonSpace \o desc

Deviants ==
    { <<>>,
      <<"u", "n", "e", "x", "p", "e", "c", "t", "e", "d", " ", "E", "O", "F">>,
      S_template \o <<"X", ":", "1", "2", ":">> \o D_someError,
      S_template \o <<"X", ":", " ">> \o D_someError,
      S_template \o <<"X", ":", "1", "a", ":", " ">> \o D_someError,
      <<"T", "e", "m", "p", "l", "a", "t", "e", ":", " ", "X", ":", "1", "2", ":", " ">> \o D_someError }

GrammarProbes ==
    { [kind |-> "grammar", pre |-> pre, name |-> name, line |-> line, char |-> char,
       desc |-> desc, level |-> level, text |-> GrammarText(pre, name, line, char, desc),
       done |-> FALSE, out |-> NoDiagnostic] :
         pre \in ProbePrefixes, name \in ProbeNames, line \in ProbeLines,
         char \in ProbeChars, desc \in ProbeDescriptions, level \in Levels }

DeviantProbes ==
    { [kind |-> "deviant", pre |-> <<>>, name |-> <<>>, line |-> NoNumber, char |-> NoNumber,
       desc |-> <<>>, level |-> level, text |-> text,
       done |-> FALSE, out |-> NoDiagnostic] :
         text \in Deviants, level \in Levels }

NoProbe ==
    [kind |-> "none", pre |-> <<>>, name |-> <<>>, line |-> NoNumber, char |-> NoNumber,
     desc |-> <<>>, level |-> "", text |-> <<>>, done |-> FALSE, out |-> NoDiagnostic]

\* the requests that the server may be handling at a time, and the
\* activation of one that never comes
Requests == {1, 2}
Absent == [Activation("", <<>>, SampleForm, SampleEngine) EXCEPT !.pc = "absent"]

\* one request on a fresh server, or one call of createTemplateError
Init ==
    /\ tplErrs = <<>>
    /\ \/ /\ probe = NoProbe
          /\ \E q \in PostRequests \cup {GetRequest} : h = <<q, Absent>>
       \/ /\ probe \in GrammarProbes \cup DeviantProbes
          /\ h = <<Absent, Absent>>

Step(r, next) == h' = [h EXCEPT ![r] = next]

\* main.go:129-135, Post up to the reset of the shared list; a form that
\* cannot be parsed ends the request
PostBegin(r) ==
    /\ h[r].pc = "begin"
    /\ h[r].method = "POST"
    /\ \E formOk \in BOOLEAN :
          IF formOk
          THEN /\ tplErrs' = <<>>
               /\ Step(r, [h[r] EXCEPT !.pc = "unmarshal", !.own = <<>>])
          ELSE /\ Step(r, [h[r] EXCEPT !.pc = "refused"])
               /\ UNCHANGED tplErrs
    /\ UNCHANGED probe

\* main.go:110-111, Get
GetBegin(r) ==
    /\ h[r].pc = "begin"
    /\ h[r].method = "GET"
    /\ tplErrs' = <<>>
    /\ Step(r, [h[r] EXCEPT !.pc = "unmarshal", !.own = <<>>])
    /\ UNCHANGED probe

\* the two halves of a.tplErrs = append(a.tplErrs, pend...): the load of the
\* field and the store of the longer list
appendLoad(r) ==
    /\ h[r].pc = "load"
    /\ Step(r, [h[r] EXCEPT !.pc = "store", !.tmp = tplErrs])
    /\ UNCHANGED <<tplErrs, probe>>

appendStore(r) ==
    /\ h[r].pc = "store"
    /\ tplErrs' = h[r].tmp \o h[r].pend
    /\ Step(r, [h[r] EXCEPT !.pc = h[r].cont, !.own = @ \o h[r].pend,
                            !.pend = <<>>, !.tmp = <<>>, !.cont = ""])
    /\ UNCHANGED probe

S_failedData == <<"f", "a", "i", "l", "e", "d", " ", "t", "o", " ", "u", "n", "d", "e", "r", "s", "t", "a", "n", "d", " ", "d", "a", "t", "a", ":", " ">>
S_invalidCharacter == <<"i", "n", "v", "a", "l", "i", "d", " ", "c", "h", "a", "r", "a", "c", "t", "e", "r">>
S_badFunction == <<"b", "a", "d", " ", "f", "u", "n", "c", "t", "i", "o", "n", " ", "n", "a", "m", "e", " ", "p", "r", "o", "v", "i", "d", "e", "d", ":", " ", "\"">>

\* main.go:161-162
DataDiagnostic ==
    [Line |-> -1, Char |-> -1, Level |-> misunderstoodError,
     Description |-> S_failedData \o S_invalidCharacter]

\* main.go:179-180
BadFunctionDiagnostic(fn) ==
    [Line |-> -1, Char |-> -1, Level |-> misunderstoodError,
     Description |-> S_badFunction \o fn \o <<"\"">>]

\* main.go:169-172
splitFunctions(rawFns) == IF rawFns # <<>> THEN SplitComma(rawFns) ELSE <<>>

\* main.go:158-172, createData: the data are decoded and the function list
\* is split
jsonUnmarshal(r) ==
    /\ h[r].pc = "unmarshal"
    /\ IF h[r].rawData = "invalid"
       THEN Step(r, [h[r] EXCEPT !.functions = splitFunctions(h[r].rawFns),
                                 !.pend = <<DataDiagnostic>>,
                                 !.pc = "load", !.cont = "funcs"])
       ELSE Step(r, [h[r] EXCEPT !.functions = splitFunctions(h[r].rawFns),
                                 !.pc = "funcs"])
    /\ UNCHANGED <<tplErrs, probe>>

\* a faulty variant of registered: the panic of Funcs is not recovered
registered_unrecovered(a, fn) ==
    IF GoodName(fn)
    THEN [a EXCEPT !.funcs = @ \cup {fn}, !.fnIdx = @ + 1]
    ELSE [a EXCEPT !.pc = "panic", !.panicAt = "register"]

\* main.go:174-184: the stub is registered, or the panic of Funcs is
\* recovered and reported
registered(a, fn) ==
    IF GoodName(fn)
    THEN [a EXCEPT !.funcs = @ \cup {fn}, !.fnIdx = @ + 1]
    ELSE [a EXCEPT !.fnIdx = @ + 1,
                   !.pend = <<BadFunctionDiagnostic(fn)>>,
                   !.pc = "load", !.cont = "funcs"]

\* main.go:173-185, one turn of the loop that registers the stubs
registerFunc(r) ==
    /\ h[r].pc = "funcs"
    /\ h[r].fnIdx <= Len(h[r].functions)
    /\ Step(r, registered(h[r], TrimSpace(h[r].functions[h[r].fnIdx])))
    /\ UNCHANGED <<tplErrs, probe>>

\* main.go:187 and part_000:54-56, parse(text, t)
callParse(r) ==
    /\ h[r].pc = "funcs"
    /\ h[r].fnIdx > Len(h[r].functions)
    /\ Step(r, [h[r] EXCEPT !.pc = "parse", !.funcs0 = h[r].funcs,
                            !.cur = [text |-> h[r].text, depth |-> 0]])
    /\ UNCHANGED <<tplErrs, probe>>

\* the level as it was entered and as it ended: its arguments, the functions
\* of the template at its entry, and its outcome
levelOf(a, o) ==
    [depth |-> a.cur.depth, text |-> a.cur.text, funcs |-> a.funcs,
     called |-> o.called, kind |-> o.kind, heal |-> o.heal, t |-> o.t,
     tplErrs |-> o.tplErrs, next |-> o.text, stub |-> o.stub]

\* the activation once the level has been entered
entered(a, o) ==
    [a EXCEPT !.trace = Append(@, a.cur.depth),
              !.levels = Append(@, levelOf(a, o)),
              !.calls = @ + (IF o.called THEN 1 ELSE 0)]

\* part_000:58-117: the level returns, calls itself with depth + 1 (the
\* stub is registered on the template that all the levels share) or panics
afterLevel(a, o) ==
    CASE o.kind = "return" ->
            [entered(a, o) EXCEPT !.pc = "return",
                                  !.ret = [t |-> o.t, tplErrs |-> o.tplErrs]]
      [] o.kind = "recurse" ->
            [entered(a, o) EXCEPT
                !.stack = Append(@, [text |-> a.cur.text, depth |-> a.cur.depth,
                                     tplErrs |-> o.tplErrs]),
                !.funcs = IF o.heal = "fn" THEN @ \cup {o.stub} ELSE @,
                !.heals = Append(@, [heal |-> o.heal, depth |-> a.cur.depth,
                                     before |-> a.cur.text, after |-> o.text,
                                     stub |-> o.stub]),
                !.cur = [text |-> o.text, depth |-> a.cur.depth + 1]]
      [] o.kind = "panic" ->
            [entered(a, o) EXCEPT !.pc = "panic", !.panicAt = o.heal]

\* the activation after the level under way
parseStep(a) == afterLevel(a, parseLevel(a.eng, a.cur.text, a.funcs, a.cur.depth))

\* part_000:58-117, one level of parseInternal up to its return or its call
parseInternal(r) ==
    /\ h[r].pc = "parse"
    /\ Step(r, parseStep(h[r]))
    /\ UNCHANGED <<tplErrs, probe>>

\* a faulty variant of returned: the diagnostics of the call are put before
\* the diagnostic of the level
returned_swapped(a, frame) ==
    [a EXCEPT !.stack = SubSeq(@, 1, Len(@) - 1),
              !.ret = [t |-> @.t, tplErrs |-> @.tplErrs \o frame.tplErrs]]

\* part_000:95 and 111: the level that called gets the result and returns
\* its own diagnostic followed by the diagnostics of the call
returned(a, frame) ==
    [a EXCEPT !.stack = SubSeq(@, 1, Len(@) - 1),
              !.ret = [t |-> @.t, tplErrs |-> frame.tplErrs \o @.tplErrs]]

parseReturn(r) ==
    /\ h[r].pc = "return"
    /\ h[r].stack # <<>>
    /\ Step(r, returned(h[r], h[r].stack[Len(h[r].stack)]))
    /\ UNCHANGED <<tplErrs, probe>>

\* main.go:187-188: createData has the result of parse and appends it
parseDone(r) ==
    /\ h[r].pc = "return"
    /\ h[r].stack = <<>>
    /\ Step(r, [h[r] EXCEPT !.parsedT = h[r].ret.t, !.parseTplErrs = h[r].ret.tplErrs,
                            !.pend = h[r].ret.tplErrs, !.pc = "load", !.cont = "exec"])
    /\ UNCHANGED <<tplErrs, probe>>

\* main.go:190-192: the template is executed and the result appended
execute(r) ==
    /\ h[r].pc = "exec"
    /\ \E reply \in IF h[r].method = "GET" THEN {"ok"} ELSE EngineExecute(h[r].parsedT) :
          Step(r, [h[r] EXCEPT !.execReply = reply, !.execTplErrs = exec(reply),
                               !.pend = exec(reply), !.pc = "load", !.cont = "respond"])
    /\ UNCHANGED <<tplErrs, probe>>

\* main.go:194-203: indexData.Errors is the shared list as it is now
respond(r) ==
    /\ h[r].pc = "respond"
    /\ Step(r, [h[r] EXCEPT !.Errors = tplErrs, !.pc = "done"])
    /\ UNCHANGED <<tplErrs, probe>>

Handler(r) ==
    \/ PostBegin(r)
    \/ GetBegin(r)
    \/ jsonUnmarshal(r)
    \/ registerFunc(r)
    \/ callParse(r)
    \/ parseInternal(r)
    \/ parseReturn(r)
    \/ parseDone(r)
    \/ execute(r)
    \/ appendLoad(r)
    \/ appendStore(r)
    \/ respond(r)

\* part_000:23-52, one call of createTemplateError
Extract ==
    /\ probe.kind # "none"
    /\ ~probe.done
    /\ probe' = [probe EXCEPT !.done = TRUE,
                              !.out = createTemplateError(probe.text, probe.level)]
    /\ UNCHANGED <<tplErrs, h>>

Next ==
    \/ \E r \in Requests : Handler(r)
    \/ Extract

Spec == Init /\ [][Next]_vars

\* two requests at a time on a fresh server
ConcEngine == [order |-> "text", lines |-> "true", tail |-> "unexpected"]
ConcRequests ==
    { GetRequest,
      Activation("POST", Calls(1), [rawFns |-> <<>>, rawData |-> "invalid", valid |-> {}, invalid |-> <<>>],
                 ConcEngine),
      Activation("POST", <<>>, [rawFns |-> RawFns2, rawData |-> "", valid |-> {<<"a">>, <<"b">>},
                                invalid |-> << <<"1", "x">> >>],
                 SampleEngine) }

InitConc ==
    /\ tplErrs = <<>>
    /\ probe = NoProbe
    /\ \E q1 \in ConcRequests, q2 \in ConcRequests : h = <<q1, q2>>

NextConc == \E r \in Requests : Handler(r)

SpecConc == InitConc /\ [][NextConc]_vars

(***************************************************************************)
(* Properties                                                              *)
(***************************************************************************)
\* parse has returned to createData
ParseReturned(a) == a.parsedT # "none"

\* nothing but n undefined functions stands between the text and a parsed
\* template: the engine fails n times with an undefined function, one new
\* name each time, and parses once all of them are registered
NeedsStubHeals(a, n) ==
    /\ a.pc \notin {"begin", "unmarshal", "funcs", "refused", "absent"}
    /\ a.eng.tail = "ok"
    /\ ~firstEmptyCommandRegex(a.text).found
    /\ Cardinality(MissingFns(a.text, a.funcs0)) = n

AllOfLevel(errs, level) == \A i \in 1..Len(errs) : errs[i].Level = level

\* C1: a template that needs exactly maxFixes function-stub heals comes back
\* from parse as a parsed template with exactly maxFixes diagnostics of the
\* parse level.
C1_MaxFixesHealsParse ==
    \A r \in Requests :
        (ParseReturned(h[r]) /\ NeedsStubHeals(h[r], maxFixes))
            => /\ h[r].parsedT = "parsed"
               /\ Len(h[r].parseTplErrs) = maxFixes
               /\ AllOfLevel(h[r].parseTplErrs, parseErrorLevel)

\* the levels of parseInternal are entered in the order of their depth, each
\* of them once: depth 0, then depth 1 from the one call of depth 0, ...
OneCallPerLevel(a) == \A i \in 1..Len(a.trace) : a.trace[i] = i - 1

DepthBounded(a) ==
    /\ a.cur.depth <= maxFixes
    /\ Len(a.stack) <= maxFixes
    /\ Len(a.trace) <= maxFixes + 1
    /\ OneCallPerLevel(a)
    /\ a.pc = "parse" => Len(a.stack) = a.cur.depth

\* with more than maxFixes heals to make, parse stops at the bound and returns
\* the base template; it never returns more diagnostics than it made attempts
StopsAtBound(a) ==
    ParseReturned(a) =>
        /\ Len(a.parseTplErrs) <= a.calls
        /\ a.calls <= maxFixes
        /\ NeedsStubHeals(a, maxFixes + 1) =>
              /\ a.parsedT = "base"
              /\ Len(a.trace) = maxFixes + 1

\* the call of parse is under way
InParse(a) == a.pc \in {"parse", "return"}

\* what is left of a call of parse: the levels not entered yet, the levels
\* that have not returned yet, and the level under way
Remaining(a) ==
    2 * (maxFixes + 1 - Len(a.trace)) + Len(a.stack) + (IF a.pc = "parse" THEN 1 ELSE 0)

\* the level under way has an outcome: it returns, it calls itself or it
\* aborts the handler
HasOutcome(a) == a.pc = "parse" => parseStep(a).pc \in {"parse", "return", "panic"}

\* C2: parse terminates.  The depth of the recursion never exceeds maxFixes
\* and every level calls itself at most once, with depth + 1; a text with
\* maxFixes + 1 heals to make stops at the bound with the base template and
\* with no more diagnostics than attempts; and every level of a call of parse
\* under way has an outcome, each step leaving less of the call.
C2_ParseTerminates ==
    /\ [](\A r \in Requests :
            /\ DepthBounded(h[r])
            /\ StopsAtBound(h[r])
            /\ InParse(h[r]) => Remaining(h[r]) >= 0 /\ HasOutcome(h[r]))
    /\ [][\A r \in Requests :
            (InParse(h[r]) /\ InParse(h'[r]) /\ h'[r] # h[r])
                => Remaining(h'[r]) < Remaining(h[r])]_vars

\* a text with maxFixes + 1 undefined functions has stopped at the bound
C2_StoppedAtBound ==
    \E r \in Requests :
        /\ ParseReturned(h[r])
        /\ NeedsStubHeals(h[r], maxFixes + 1)
        /\ h[r].parsedT = "base"
        /\ Len(h[r].parseTplErrs) = maxFixes
        /\ h[r].calls = maxFixes

\* the diagnostics that a request holds or has returned
Held(a) ==
    a.own \o a.pend \o a.tmp \o a.ret.tplErrs \o a.parseTplErrs \o a.execTplErrs \o a.Errors

AllOf(errs, P(_)) == \A i \in 1..Len(errs) : P(errs[i])

CharImpliesLine(d) == d.Char >= 0 => d.Line >= 0

MisunderstoodUnplaced(d) == d.Level = misunderstoodError => d.Line = -1 /\ d.Char = -1

AtLeastMinusOne(d) == d.Line >= -1 /\ d.Char >= -1

\* the names that the grammar reads as they are written: no colon and no
\* line break in them
PlainNames == {n \in ProbeNames : \A k \in 1..Len(n) : n[k] \notin {":", "\n"}}

\* the line number of a message is 0 or does not fit an integer
NoLine(number) == ~number.fits \/ number.value = 0

\* C3 as the specification states it: every diagnostic of the extractor and
\* of a returned list has a line when it has a character, and a misunderstood
\* one has neither and carries the error text as it came.
C3_CharImpliesLine ==
    /\ \A r \in Requests : AllOf(Held(h[r]), CharImpliesLine) /\ AllOf(Held(h[r]), MisunderstoodUnplaced)
    /\ AllOf(tplErrs, CharImpliesLine) /\ AllOf(tplErrs, MisunderstoodUnplaced)
    /\ probe.done =>
          /\ CharImpliesLine(probe.out)
          /\ MisunderstoodUnplaced(probe.out)
          /\ probe.out.Level = misunderstoodError => probe.out.Description = probe.text

\* C3 as the code has it: line and character are at least -1 and a
\* misunderstood diagnostic has neither and carries the error text as it
\* came; a diagnostic with a character has a line unless the line number of
\* the message is 0 or does not fit an integer, and then the line is -1 and
\* the character is kept.
C3_LineMinusOneKeepsChar ==
    /\ \A r \in Requests :
          /\ AllOf(Held(h[r]), AtLeastMinusOne)
          /\ AllOf(Held(h[r]), MisunderstoodUnplaced)
          /\ h[r].eng.lines \notin {"zero", "huge"} => AllOf(Held(h[r]), CharImpliesLine)
    /\ AllOf(tplErrs, AtLeastMinusOne) /\ AllOf(tplErrs, MisunderstoodUnplaced)
    /\ probe.done =>
          /\ AtLeastMinusOne(probe.out)
          /\ MisunderstoodUnplaced(probe.out)
          /\ probe.out.Level = misunderstoodError => probe.out.Description = probe.text
          /\ (probe.kind = "grammar" /\ ~NoLine(probe.line)) => CharImpliesLine(probe.out)
          /\ (probe.kind = "grammar" /\ probe.name \in PlainNames)
                => (probe.out.Line = -1 <=> NoLine(probe.line))
          /\ probe.kind = "deviant" => probe.out.Level = misunderstoodError

\* a message with a line number beyond the integers and a character: the
\* character is there and the line is not
C3_CharWithoutLine ==
    /\ probe.done
    /\ ~probe.line.fits
    /\ probe.out.Char = 5
    /\ probe.out.Line = -1
    /\ probe.out.Level # misunderstoodError

\* C4: of two requests handled at a time, each gets in Errors exactly the
\* diagnostics made for it, in the order they were made.
C4_OwnDiagnostics ==
    \A r \in Requests : h[r].pc = "done" => h[r].Errors = h[r].own

\* the line breaks of a text
Breaks(text) == {k \in 1..Len(text) : text[k] = "\n"}

\* C5: the text after the healing of an empty action is as long as the text
\* before, has as many lines, and differs from it by blanks only, so that
\* every other character keeps its line and its offset.
C5_HealKeepsAlignment ==
    \A r \in Requests :
        \A i \in 1..Len(h[r].heals) :
            h[r].heals[i].heal = "mv" =>
                /\ Len(h[r].heals[i].after) = Len(h[r].heals[i].before)
                /\ Len(SplitLines(h[r].heals[i].after)) = Len(SplitLines(h[r].heals[i].before))
                /\ Breaks(h[r].heals[i].after) = Breaks(h[r].heals[i].before)
                /\ \A k \in 1..Len(h[r].heals[i].before) :
                      h[r].heals[i].after[k] \in {h[r].heals[i].before[k], " "}

\* C6: parse and exec never abort their caller, whatever line number the
\* engine writes in its failure.
C6_NeverAborts ==
    \A r \in Requests : h[r].pc # "panic"

C8_IncompleteSuppressed ==
    \A r \in Requests :
        /\ h[r].execReply \in {"ok", "incomplete"} => h[r].execTplErrs = <<>>
        /\ h[r].execReply \in {"incompleteOther", "failure"} => Len(h[r].execTplErrs) = 1
        /\ (h[r].execReply = "failure" /\ h[r].pc = "done")
              => \E i \in 1..Len(h[r].Errors) : h[r].Errors[i].Level = execErrorLevel

\* the template that came back unparsed has been executed, and the engine's
\* message of the incomplete template has left no diagnostic
C8_SuppressedOnBase ==
    \E r \in Requests :
        /\ h[r].pc = "done"
        /\ h[r].parsedT = "base"
        /\ h[r].execReply = "incomplete"
        /\ h[r].execTplErrs = <<>>

\* the registration of the functions of the form is over
Registered(a) ==
    /\ a.pc \notin {"begin", "unmarshal", "funcs", "refused", "absent"}
    /\ ~(a.pc \in {"load", "store"} /\ a.cont = "funcs")
    /\ a.panicAt # "register"

NamesBadFunction(d) == HasAt(d.Description, S_badFunction, 1)

\* C9: every name of the form that is no identifier leaves one misunderstood
\* diagnostic that names it, the other names are registered, no such name
\* aborts the handler, and the template is parsed and executed all the same.
C9_BadNamesReported ==
    \A r \in Requests :
        /\ h[r].panicAt # "register"
        /\ Registered(h[r]) =>
              /\ h[r].funcs0 = h[r].form.valid
              /\ SelectSeq(h[r].own, NamesBadFunction)
                    = [i \in 1..Len(h[r].form.invalid) |->
                          [Line |-> -1, Char |-> -1, Level |-> misunderstoodError,
                           Description |-> S_badFunction \o h[r].form.invalid[i] \o <<"\"">>]]
              /\ h[r].trace # <<>> \/ h[r].pc = "parse"
        /\ h[r].pc = "done" => h[r].trace # <<>> /\ h[r].execReply # "none"

\* a form with a name that is no identifier has been answered
C9_BadNameAnswered ==
    \E r \in Requests :
        /\ h[r].pc = "done"
        /\ h[r].form.invalid = << <<"1", "x">> >>
        /\ h[r].funcs0 = {<<"a">>, <<"b">>}
        /\ \E i \in 1..Len(h[r].Errors) : NamesBadFunction(h[r].Errors[i])

HasBreak(text) == \E k \in 1..Len(text) : text[k] = "\n"

\* the number of a field of a message: none, or beyond the integers, is -1
FieldOr(number, none) == IF number.fits THEN number.value ELSE none

\* C10 as the specification states it: of every message of the grammar the
\* extractor returns the line number less one, the character or -1 when
\* there is none, the description untouched and the level of the caller.
C10_GrammarExtracted ==
    (probe.done /\ probe.kind = "grammar") =>
        /\ probe.line.fits /\ probe.out.Line = probe.line.value - 1
        /\ probe.char.digits = <<>> => probe.out.Char = -1
        /\ probe.char.digits # <<>> => probe.char.fits /\ probe.out.Char = probe.char.value
        /\ probe.out.Description = probe.desc
        /\ probe.out.Level = probe.level

\* C10 as the code has it: so it is for a name without a colon and a line
\* break and a description without a line break, except that a number
\* beyond the integers gives -1 for its field; of a description with line
\* breaks the first line is returned.
C10_PlainGrammarExtracted ==
    (probe.done /\ probe.kind = "grammar" /\ probe.name \in PlainNames) =>
        /\ probe.out.Line = FieldOr(probe.line, 0) - 1
        /\ probe.out.Char = FieldOr(probe.char, -1)
        /\ probe.out.Level = probe.level
        /\ ~HasBreak(probe.desc) => probe.out.Description = probe.desc
        /\ HasBreak(probe.desc) => probe.out.Description = SplitLines(probe.desc)[1]

\* the message of line 3 and character 5 has been extracted
C10_LineAndCharExtracted ==
    /\ probe.done
    /\ probe.text = S_template \o <<"X", ":", "3", ":", "5", ":", " ">> \o D_someError
    /\ probe.out.Line = 2
    /\ probe.out.Char = 5
    /\ probe.out.Description = D_someError

\* the error text is not a message of the grammar alone: it is one of the
\* deviant texts, or a message of the grammar after other leading text
Deviates(p) == p.kind = "deviant" \/ (p.kind = "grammar" /\ p.pre # <<>>)

\* C11: of every error text that deviates from the grammar, a text that has a
\* message of the grammar after other leading text among them, the extractor
\* returns a misunderstood diagnostic with line -1, character -1 and the
\* whole error text for its description.
C11_DeviationMisunderstood ==
    (probe.done /\ Deviates(probe)) =>
        /\ probe.out.Level = misunderstoodError
        /\ probe.out.Line = -1
        /\ probe.out.Char = -1
        /\ probe.out.Description = probe.text

\* the level that was entered last
LastLevel(a) == a.levels[Len(a.levels)]

\* the engine was asked at the level and failed
Failed(l) == l.called /\ ~(l.kind = "return" /\ l.t = "parsed")

\* the diagnostic that the extractor made of the engine's failure at the level
Diagnosed(eng, l) == createTemplateError(EngineParse(eng, l.text, l.funcs).msg, parseErrorLevel)

\* the diagnostic is one for the token locator: it is understood, has no
\* character and has a quoted token in its description
ForLocator(d) ==
    /\ d.Level # misunderstoodError
    /\ d.Char = -1
    /\ findTokenRegex(d.Description) # <<>>

QuotedToken(desc, loc) == SubSeq(desc, loc[1] + 2, loc[2] - 1)

\* the offset of the token in the line when it is there once, or -1
OnceIn(line, token) ==
    IF Cardinality(Occurrences(line, token)) = 1 THEN Min(Occurrences(line, token)) - 1 ELSE -1

\* what the locator has done to the diagnostic first of the level l
LocatorFills(l, first, lines) ==
    Failed(l) =>
        /\ ~(l.kind = "panic" /\ l.heal = "locator")
        /\ l.kind # "panic" =>
              /\ Len(l.tplErrs) = 1
              /\ l.tplErrs[1].Line = first.Line
              /\ l.tplErrs[1].Description = first.Description
              /\ l.tplErrs[1].Level = first.Level
              /\ (ForLocator(first) /\ l.heal # "mv") =>
                    l.tplErrs[1].Char
                        = OnceIn(lines[first.Line + 1],
                                 QuotedToken(first.Description, findTokenRegex(first.Description)))
              /\ (~ForLocator(first) /\ l.heal # "mv") => l.tplErrs[1].Char = first.Char

\* C12: the token locator gives a diagnostic without a character the offset
\* of the quoted token of its description in the line of the diagnostic when
\* the token is there once, and leaves -1 when it is there more than once or
\* not at all or when there is no quoted token; it changes neither the line
\* nor the description nor the level, and no level ends in the locator.
C12_LocatorOnlyFillsChar ==
    \A r \in Requests :
        h[r].levels # <<>> =>
            LocatorFills(LastLevel(h[r]), Diagnosed(h[r].eng, LastLevel(h[r])),
                         SplitLines(LastLevel(h[r]).text))

\* the engine fails on the text and the functions of the level
EngineFails(eng, l) == ~EngineParse(eng, l.text, l.funcs).ok

\* C13: the bound on the depth is tested after the attempt.  At every level
\* that is entered, depth maxFixes among them, the engine is asked to parse;
\* no level of depth maxFixes or more calls itself; and when the engine fails
\* at such a level, the list that parse returns ends with the diagnostic of
\* that failure, one diagnostic for each level.
C13_DepthCheckedAfterAttempt ==
    \A r \in Requests :
        h[r].levels # <<>> =>
            /\ LastLevel(h[r]).called
            /\ LastLevel(h[r]).depth >= maxFixes => LastLevel(h[r]).kind # "recurse"
            /\ (ParseReturned(h[r]) /\ LastLevel(h[r]).depth >= maxFixes
                  /\ EngineFails(h[r].eng, LastLevel(h[r])))
                  => /\ Len(h[r].parseTplErrs) = Len(h[r].levels)
                     /\ h[r].parseTplErrs[Len(h[r].levels)].Description
                           = Diagnosed(h[r].eng, LastLevel(h[r])).Description

\* the diagnostics of the levels k, k + 1, ... in the order of the levels
RECURSIVE OwnFrom(_, _)
OwnFrom(levels, k) ==
    IF k > Len(levels) THEN <<>> ELSE levels[k].tplErrs \o OwnFrom(levels, k + 1)

\* a level that failed and did not abort has one diagnostic, any other none
OneForEachFailure(l) ==
    Len(l.tplErrs) = IF Failed(l) /\ l.kind # "panic" THEN 1 ELSE 0

\* the list in the hands of parse: the levels that wait for their call hold
\* their own diagnostic, and the list on its way back is the diagnostics of
\* the levels that have returned, in the order of their depth
InOrderOfDepth(a) ==
    /\ \A i \in 1..Len(a.levels) : a.levels[i].depth = i - 1 /\ OneForEachFailure(a.levels[i])
    /\ InParse(a) =>
          /\ Len(a.stack) <= Len(a.levels)
          /\ \A j \in 1..Len(a.stack) : a.stack[j].tplErrs = a.levels[j].tplErrs
    /\ a.pc = "return" => a.ret.tplErrs = OwnFrom(a.levels, Len(a.stack) + 1)
    /\ (a.pc = "return" /\ a.stack = <<>>) =>
          \A i \in 1..Len(a.ret.tplErrs) :
              /\ Failed(a.levels[i])
              /\ a.ret.tplErrs[i].Description = Diagnosed(a.eng, a.levels[i]).Description
              /\ a.ret.tplErrs[i].Line = Diagnosed(a.eng, a.levels[i]).Line
    /\ ParseReturned(a) =>
          /\ a.parseTplErrs = OwnFrom(a.levels, 1)
          /\ Len(a.parseTplErrs) = Cardinality({i \in 1..Len(a.levels) : Failed(a.levels[i])})

\* a step of parse keeps what the list held: a level that is entered leaves
\* the diagnostics of the waiting levels as they are, and a level that gets
\* the list of its call puts its own diagnostic in front of it
KeepsEarlier(a, b) ==
    /\ (a.pc = "parse" /\ InParse(b)) =>
          \A j \in 1..Len(a.stack) : b.stack[j].tplErrs = a.stack[j].tplErrs
    /\ (a.pc = "return" /\ b.pc = "return" /\ b # a) =>
          /\ Len(b.stack) = Len(a.stack) - 1
          /\ b.ret.tplErrs = a.stack[Len(a.stack)].tplErrs \o a.ret.tplErrs
          /\ \A j \in 1..Len(b.stack) : b.stack[j] = a.stack[j]

\* C14: the list that parse returns is ordered by encounter and only grows.
\* Every level whose attempt failed adds one diagnostic and nothing else adds
\* one, the i-th diagnostic is the one of the attempt of the i-th level, the
\* list of a level is its own diagnostic followed by the list of its call,
\* and no step of parse removes or moves a diagnostic made before.
C14_OrderedByEncounter ==
    /\ [](\A r \in Requests : InOrderOfDepth(h[r]))
    /\ [][\A r \in Requests : KeepsEarlier(h[r], h'[r])]_vars

\* parse has returned three diagnostics: two undefined functions healed, and
\* a failure that no healer took
C14_ThreeInOrder ==
    \E r \in Requests :
        /\ ParseReturned(h[r])
        /\ Len(h[r].levels) = 3
        /\ Len(h[r].parseTplErrs) = 3
        /\ h[r].levels[1].heal = "fn"
        /\ h[r].levels[2].heal = "fn"
        /\ h[r].levels[3].kind = "return"
        /\ h[r].parseTplErrs[1] # h[r].parseTplErrs[2]
        /\ h[r].parseTplErrs[2] # h[r].parseTplErrs[3]

\* the two triggers of the healers
StubTrigger(d) == functionNotFoundRegex(d.Description) # <<>>
EmptyTrigger(d) == missingValueForCommandRegex(d.Description)

\* the healer of the level l, whose attempt gave the diagnostic first
OneHealerByPriority(l, first) ==
    Failed(l) =>
        /\ first.Level = misunderstoodError => l.kind = "return" /\ l.heal = "none"
        /\ (first.Level # misunderstoodError /\ StubTrigger(first) /\ l.kind # "panic") =>
              /\ l.kind = "recurse"
              /\ l.heal = "fn"
              /\ l.stub = functionNotFoundRegex(first.Description)[2]
        /\ l.heal \in {"mv", "healer"} => ~StubTrigger(first) /\ EmptyTrigger(first)
        /\ l.heal = "fn" => l.next = l.text /\ StubTrigger(first)
        /\ l.heal = "mv" => l.stub = <<>>
        /\ l.kind = "recurse" <=> l.heal \in {"fn", "mv"}

Unhealable(first, text) ==
    \/ first.Level = misunderstoodError
    \/ ~StubTrigger(first) /\ ~EmptyTrigger(first)
    \/ ~StubTrigger(first) /\ EmptyTrigger(first) /\ ~firstEmptyCommandRegex(text).found

\* the level l, whose attempt gave the diagnostic first, has stopped
StopsUnhealed(l, first) ==
    (Failed(l) /\ Unhealable(first, l.text)) =>
        /\ l.kind # "recurse"
        /\ l.heal \notin {"fn", "mv", "healer", "funcs"}
        /\ (first.Level = misunderstoodError \/ EmptyTrigger(first)) => l.kind = "return"
        /\ l.kind = "return" =>
              /\ l.t = "base"
              /\ Len(l.tplErrs) = 1
              /\ l.tplErrs[1].Description = first.Description
              /\ l.tplErrs[1].Level = first.Level

\* parse returns what the last level returned, behind the diagnostics of the
\* levels before it
LastLevelDecides(a) ==
    (ParseReturned(a) /\ a.levels # <<>>) =>
        /\ a.parsedT = LastLevel(a).t
        /\ LastLevel(a).kind = "return"
        /\ Len(a.parseTplErrs) >= Len(LastLevel(a).tplErrs)
        /\ SubSeq(a.parseTplErrs, Len(a.parseTplErrs) - Len(LastLevel(a).tplErrs) + 1,
                  Len(a.parseTplErrs)) = LastLevel(a).tplErrs

StoppedBy(a, tail) ==
    /\ ParseReturned(a)
    /\ a.eng.tail = tail
    /\ Len(a.levels) = 2
    /\ a.levels[1].heal = "fn"
    /\ a.parsedT = "base"
    /\ Len(a.parseTplErrs) = 2

FirstSpanBlanked(before, after, m) ==
    /\ m.found
    /\ Len(after) = Len(before)
    /\ \A k \in 1..Len(before) :
          IF k > m.at /\ k <= m.at + Len(m.span)
          THEN after[k] = " "
          ELSE after[k] = before[k]
    /\ \A p \in 1..m.at : EmptyCommandEnd(before, p) = 0

\* the level l has healed and the level n is the one it called
HealChangesOne(l, n, first) ==
    /\ n.depth = l.depth + 1
    /\ l.kind = "recurse"
    /\ l.next = n.text
    /\ l.heal = "fn" =>
          /\ n.text = l.text
          /\ l.stub \notin l.funcs
          /\ n.funcs = l.funcs \cup {l.stub}
          /\ S_function \o l.stub \o S_notDefined
                = SubSeq(first.Description, 1, Len(S_function \o l.stub \o S_notDefined))
    /\ l.heal = "mv" =>
          /\ n.funcs = l.funcs
          /\ FirstSpanBlanked(l.text, n.text, firstEmptyCommandRegex(l.text))

\* the level before the last
CallerOfLast(a) == a.levels[Len(a.levels) - 1]

\* C17: a heal changes one thing.  The stub healer calls the next level with
\* depth + 1, the same text and the functions of the template with the one
\* name of the diagnostic more; the empty-command healer calls it with
\* depth + 1, the same functions and a text that differs from the text
\* before only in the first empty action, which is blanks of the same length.
C17_HealChangesOneThing ==
    \A r \in Requests :
        /\ Len(h[r].levels) >= 2 =>
              HealChangesOne(CallerOfLast(h[r]), LastLevel(h[r]),
                             Diagnosed(h[r].eng, CallerOfLast(h[r])))
        /\ (h[r].pc = "parse" /\ h[r].levels # <<>>) =>
              /\ h[r].cur.depth = LastLevel(h[r]).depth + 1
              /\ h[r].cur.text = LastLevel(h[r]).next
              /\ LastLevel(h[r]).heal = "fn" => h[r].funcs = LastLevel(h[r]).funcs \cup {LastLevel(h[r]).stub}
              /\ LastLevel(h[r]).heal = "mv" => h[r].funcs = LastLevel(h[r]).funcs

\* a stub heal and then an empty-command heal of the second empty action of
\* the line have been made
C17_BothHealsMade ==
    \E r \in Requests :
        /\ Len(h[r].levels) >= 4
        /\ h[r].levels[1].heal = "fn"
        /\ h[r].levels[2].heal = "mv"
        /\ h[r].levels[3].heal = "mv"
        /\ h[r].levels[3].next # h[r].levels[3].text
        /\ h[r].levels[4].funcs = h[r].levels[1].funcs \cup {h[r].levels[1].stub}

\* C18: parse does not change the template of its caller.  From the call of
\* parse on, and after parse has returned, healed or not, the functions of
\* the template that createData passed are the functions it had at the call.
C18_BaseTemplateUntouched ==
    \A r \in Requests :
        (InParse(h[r]) \/ ParseReturned(h[r])) => h[r].funcs = h[r].funcs0

\* the inner text of the first and shortest quoted span: from the first
\* quote that opens a span to the nearest quote that closes it
FirstQuoted(desc, opens) ==
    SubSeq(desc, Min(opens) + 1, Min(TokenCloses(desc, Min(opens))) - 1)

\* the token that the locator takes from the description of the diagnostic
\* first, and the character it gives the diagnostic of the level l
TakesFirstToken(l, first, lines) ==
    (Failed(l) /\ l.kind # "panic" /\ l.heal # "mv" /\ ForLocator(first)) =>
        /\ QuotedToken(first.Description, findTokenRegex(first.Description))
              = FirstQuoted(first.Description, TokenOpens(first.Description))
        /\ l.tplErrs[1].Char
              = OnceIn(lines[first.Line + 1],
                       FirstQuoted(first.Description, TokenOpens(first.Description)))

\* C19: the token of the locator is the inner text of the first and shortest
\* quoted span of the description; of a description with two quoted tokens
\* it is the first token alone, and the character of the diagnostic is the
\* offset of that token in the line.
C19_FirstQuotedToken ==
    \A r \in Requests :
        h[r].levels # <<>> =>
            TakesFirstToken(LastLevel(h[r]), Diagnosed(h[r].eng, LastLevel(h[r])),
                            SplitLines(LastLevel(h[r]).text))

\* the template has been executed
Executed(a) == a.execReply # "none"

\* the last n elements of a list
Last(errs, n) == SubSeq(errs, Len(errs) - n + 1, Len(errs))

\* the diagnostics of the execution: one at most, of the exec level unless
\* the extractor did not understand the failure, none for the base template
\* that came back unparsed, and in the list of the request behind the
\* diagnostics of parse
ExecAfterParse(a) ==
    /\ ~Executed(a) => a.execTplErrs = <<>>
    /\ Executed(a) =>
          /\ ParseReturned(a)
          /\ Len(a.execTplErrs) <= 1
          /\ \A i \in 1..Len(a.execTplErrs) :
                a.execTplErrs[i].Level \in {execErrorLevel, misunderstoodError}
          /\ a.parsedT = "base" => a.execTplErrs = <<>>
          /\ a.execTplErrs # <<>> => a.parsedT = "parsed"
    /\ \A i \in 1..Len(a.parseTplErrs) : a.parseTplErrs[i].Level # execErrorLevel
    /\ a.pc = "done" =>
          /\ Executed(a)
          /\ a.Errors = a.own
          /\ Len(a.Errors) >= Len(a.parseTplErrs) + Len(a.execTplErrs)
          /\ Last(a.Errors, Len(a.execTplErrs)) = a.execTplErrs
          /\ Last(a.Errors, Len(a.parseTplErrs) + Len(a.execTplErrs))
                = a.parseTplErrs \o a.execTplErrs
          /\ \A i \in 1..Len(a.Errors) :
                a.Errors[i].Level = execErrorLevel
                    => i = Len(a.Errors) /\ a.execTplErrs # <<>> /\ a.parsedT = "parsed"

\* the execution and what follows it leave the result of parse alone: no
\* level is entered, no function registered, no second execution made
ExecutesOnce(a, b) ==
    /\ (a.pc = "exec" /\ b # a) =>
          /\ Executed(b)
          /\ b.levels = a.levels /\ b.funcs = a.funcs /\ b.parsedT = a.parsedT
          /\ b.parseTplErrs = a.parseTplErrs
    /\ Executed(a) =>
          /\ b.execReply = a.execReply /\ b.execTplErrs = a.execTplErrs
          /\ b.levels = a.levels /\ b.funcs = a.funcs /\ b.parsedT = a.parsedT
          /\ b.parseTplErrs = a.parseTplErrs
          /\ b.pc \notin {"parse", "return", "exec", "funcs", "unmarshal"}

\* C20: the execution runs once, after parse, and heals and parses nothing.
\* It gives one diagnostic at most, of the exec level, behind all the
\* diagnostics of parse in the list of the request; it gives none for the
\* base template that came back unparsed, so that a diagnostic of the exec
\* level is in the list only when the template that came back was parsed.
C20_ExecOnceAfterParse ==
    /\ [](\A r \in Requests : ExecAfterParse(h[r]))
    /\ [][\A r \in Requests : ExecutesOnce(h[r], h'[r])]_vars

\* a request has been answered with the diagnostic of a healed parse failure
\* and, behind it, the diagnostic of the failed execution
C20_ExecBehindParse ==
    \E r \in Requests :
        /\ h[r].pc = "done"
        /\ h[r].parsedT = "parsed"
        /\ Len(h[r].parseTplErrs) = 2
        /\ Len(h[r].execTplErrs) = 1
        /\ Len(h[r].Errors) >= 3
        /\ h[r].Errors[Len(h[r].Errors)].Level = execErrorLevel
        /\ h[r].Errors[Len(h[r].Errors) - 1].Level = parseErrorLevel

====
